---- MODULE Spec2Model ----
(***************************************************************************)
(* The InnoDB work queue of storage/innobase/ut/ut0wqueue.cc: a list of    *)
(* work items guarded by wq->mutex, with the event wq->event that          *)
(* consumers wait on.  Each thread runs one queue operation at a time;     *)
(* every numbered statement of an operation that touches shared state is   *)
(* one step of the thread.                                                 *)
(***************************************************************************)
EXTENDS Integers, Sequences, FiniteSets, TLC

\* ---------------------------------------------------------------- bounds
\* Number of ib_wqueue_add calls made in a behaviour (work items 1..MaxPush).
MaxPush == 2
\* The wait_in_usecs passed to ib_wqueue_timedwait, in clock ticks.
MaxWait == 1

\* The threads that add work and inspect the queue, and those that take work.
Producers == {"p1"}
Consumers == {"c1", "c2"}
Threads == Producers \cup Consumers
NoThread == "none"
\* The NULL pointer: no list node / no work item.
NULL == 0
Items == 1..MaxPush

VARIABLES
    items,        \* wq->items: the list of work items, first node first
    mutex,        \* wq->mutex: the thread that holds it, or NoThread
    event,        \* wq->event: [m_set, signal_count]
    pc,           \* per thread: the statement it is about to execute
    item,         \* per thread: the item argument of ib_wqueue_add
    wq_locked,    \* per thread: the wq_locked argument of ib_wqueue_add
    node,         \* per thread: the local node of the pop functions
    sig_count,    \* per thread: the local sig_count / reset_sig_count
    wait_in_usecs,\* per thread: the timeout argument of ib_wqueue_timedwait
    elapsed,      \* per thread: ticks spent in the current timed wait
    is_empty,     \* per thread: the local is_empty of ib_wqueue_is_empty
    len,          \* per thread: the local len of ib_wqueue_len
    nAdd,         \* history: number of ib_wqueue_add calls started
    removed,      \* history: the items taken off the list, in order
    returned,     \* history: per item, how many pop calls returned it
    setSince      \* history: per thread, os_event_set ran since its capture

vars == <<items, mutex, event, pc, item, wq_locked, node, sig_count,
          wait_in_usecs, elapsed, is_empty, len, nAdd, removed, returned,
          setSince>>

shared == <<items, mutex, event>>
locals == <<item, wq_locked, node, sig_count, wait_in_usecs, elapsed,
            is_empty, len>>
history == <<nAdd, removed, returned, setSince>>

\* ------------------------------------------------------------ primitives
\* ib_list: first node, removal of the first node, emptiness, length.
ib_list_get_first(list) == IF list = <<>> THEN NULL ELSE Head(list)

ib_list_remove_first(list) == Tail(list)

ib_list_is_empty(list) == list = <<>>

ib_list_len(list) == Len(list)

ib_list_add_last(list, it) == Append(list, it)

\* os_event: a level-triggered event with a generation counter.
os_event_create == [m_set |-> FALSE, signal_count |-> 1]

os_event_set(e) ==
    IF e.m_set THEN e
    ELSE [m_set |-> TRUE, signal_count |-> e.signal_count + 1]

os_event_reset(e) == [e EXCEPT !.m_set = FALSE]

\* What a wait on e started with generation reset_sig_count (0: the
\* generation at entry, passed here as entry) sees as "signalled".
os_event_signalled(e, reset_sig_count) ==
    e.m_set \/ e.signal_count # reset_sig_count

mutex_free == mutex = NoThread

\* ------------------------------------------------------------------ init
Init ==
    /\ items = <<>>
    /\ mutex = NoThread
    /\ event = os_event_create
    /\ pc = [t \in Threads |-> "idle"]
    /\ item = [t \in Threads |-> NULL]
    /\ wq_locked = [t \in Threads |-> FALSE]
    /\ node = [t \in Threads |-> NULL]
    /\ sig_count = [t \in Threads |-> 0]
    /\ wait_in_usecs = [t \in Threads |-> 0]
    /\ elapsed = [t \in Threads |-> 0]
    /\ is_empty = [t \in Threads |-> FALSE]
    /\ len = [t \in Threads |-> 0]
    /\ nAdd = 0
    /\ removed = <<>>
    /\ returned = [i \in Items |-> 0]
    /\ setSince = [t \in Threads |-> FALSE]

goto(t, l) == pc' = [pc EXCEPT ![t] = l]

\* ---------------------------------------------------------- ib_wqueue_add
\* A thread calls ib_wqueue_add(wq, item, heap, locked).  With locked = TRUE
\* the caller takes wq->mutex itself first and releases it after the call.
CallAdd(t, locked) ==
    /\ pc[t] = "idle"
    /\ nAdd < MaxPush
    /\ nAdd' = nAdd + 1
    /\ item' = [item EXCEPT ![t] = nAdd + 1]
    /\ wq_locked' = [wq_locked EXCEPT ![t] = locked]
    /\ goto(t, IF locked THEN "caller_lock" ELSE "add_lock")
    /\ UNCHANGED <<shared, node, sig_count, wait_in_usecs, elapsed, is_empty,
                   len, removed, returned, setSince>>

caller_lock(t) ==
    /\ pc[t] = "caller_lock"
    /\ mutex_free
    /\ mutex' = t
    /\ goto(t, "add_lock")
    /\ UNCHANGED <<items, event, locals, history>>

\* ib_wqueue_add with the test of wq_locked inverted on entry: the mutex
\* is taken only when the caller says it already holds it.
add_lock_inverted(t) ==
    /\ pc[t] = "add_lock"
    /\ IF ~wq_locked[t] THEN UNCHANGED mutex
                        ELSE mutex_free /\ mutex' = t
    /\ goto(t, "add_last")
    /\ UNCHANGED <<items, event, locals, history>>

\* if (!wq_locked) mysql_mutex_lock(&wq->mutex);
add_lock(t) ==
    /\ pc[t] = "add_lock"
    /\ IF wq_locked[t] THEN UNCHANGED mutex
                       ELSE mutex_free /\ mutex' = t
    /\ goto(t, "add_last")
    /\ UNCHANGED <<items, event, locals, history>>

\* ib_wqueue_add putting the item at the head of the list.
add_first(t) ==
    /\ pc[t] = "add_last"
    /\ items' = <<item[t]>> \o items
    /\ goto(t, "add_set")
    /\ UNCHANGED <<mutex, event, locals, history>>

\* ib_list_add_last(wq->items, item, heap);
add_last(t) ==
    /\ pc[t] = "add_last"
    /\ items' = ib_list_add_last(items, item[t])
    /\ goto(t, "add_set")
    /\ UNCHANGED <<mutex, event, locals, history>>

\* The timed waiters between their capture of the generation and the end
\* of their wait.
InGap(t) == pc[t] \in {"tw_unlock", "tw_event", "tw_blocked"}

\* ib_wqueue_add with the os_event_set call left out.
add_noset(t) ==
    /\ pc[t] = "add_set"
    /\ goto(t, "add_unlock")
    /\ UNCHANGED <<shared, locals, history>>

\* ib_wqueue_add pulsing the event: it resets the event and sets it again,
\* so that every add starts a new generation.
add_set_pulse(t) ==
    /\ pc[t] = "add_set"
    /\ event' = os_event_set(os_event_reset(event))
    /\ setSince' = [u \in Threads |-> setSince[u] \/ InGap(u)]
    /\ goto(t, "add_unlock")
    /\ UNCHANGED <<items, mutex, locals, nAdd, removed, returned>>

\* os_event_set(wq->event);
add_set(t) ==
    /\ pc[t] = "add_set"
    /\ event' = os_event_set(event)
    /\ setSince' = [u \in Threads |-> setSince[u] \/ InGap(u)]
    /\ goto(t, "add_unlock")
    /\ UNCHANGED <<items, mutex, locals, nAdd, removed, returned>>

\* ib_wqueue_add releasing the mutex on exit whatever wq_locked says.
add_unlock_always(t) ==
    /\ pc[t] = "add_unlock"
    /\ mutex' = NoThread
    /\ goto(t, IF wq_locked[t] THEN "caller_unlock" ELSE "idle")
    /\ item' = [item EXCEPT ![t] = NULL]
    /\ UNCHANGED <<items, event, wq_locked, node, sig_count, wait_in_usecs,
                   elapsed, is_empty, len, history>>

\* if (!wq_locked) mysql_mutex_unlock(&wq->mutex);  and the return
add_unlock(t) ==
    /\ pc[t] = "add_unlock"
    /\ IF wq_locked[t] THEN UNCHANGED mutex ELSE mutex' = NoThread
    /\ goto(t, IF wq_locked[t] THEN "caller_unlock" ELSE "idle")
    /\ item' = [item EXCEPT ![t] = NULL]
    /\ UNCHANGED <<items, event, wq_locked, node, sig_count, wait_in_usecs,
                   elapsed, is_empty, len, history>>

caller_unlock(t) ==
    /\ pc[t] = "caller_unlock"
    /\ mutex' = NoThread
    /\ wq_locked' = [wq_locked EXCEPT ![t] = FALSE]
    /\ goto(t, "idle")
    /\ UNCHANGED <<items, event, item, node, sig_count, wait_in_usecs,
                   elapsed, is_empty, len, history>>

ib_wqueue_add(t) ==
    \/ \E locked \in BOOLEAN : CallAdd(t, locked)
    \/ caller_lock(t)
    \/ add_lock(t)
    \/ add_last(t)
    \/ add_set(t)
    \/ add_unlock(t)
    \/ caller_unlock(t)

\* --------------------------------------------------------- ib_wqueue_wait
CallWait(t) ==
    /\ pc[t] = "idle"
    /\ goto(t, "wait_event")
    /\ UNCHANGED <<shared, locals, history>>

\* os_event_wait(wq->event): returns at once when the event is set, else
\* blocks on the generation it read at entry.
wait_event(t) ==
    /\ pc[t] = "wait_event"
    /\ IF os_event_signalled(event, event.signal_count)
       THEN goto(t, "wait_lock") /\ UNCHANGED sig_count
       ELSE /\ goto(t, "wait_blocked")
            /\ sig_count' = [sig_count EXCEPT ![t] = event.signal_count]
    /\ UNCHANGED <<shared, item, wq_locked, node, wait_in_usecs, elapsed,
                   is_empty, len, history>>

wait_blocked(t) ==
    /\ pc[t] = "wait_blocked"
    /\ os_event_signalled(event, sig_count[t])
    /\ sig_count' = [sig_count EXCEPT ![t] = 0]
    /\ goto(t, "wait_lock")
    /\ UNCHANGED <<shared, item, wq_locked, node, wait_in_usecs, elapsed,
                   is_empty, len, history>>

\* mysql_mutex_lock(&wq->mutex);
wait_lock(t) ==
    /\ pc[t] = "wait_lock"
    /\ mutex_free
    /\ mutex' = t
    /\ goto(t, "wait_first")
    /\ UNCHANGED <<items, event, locals, history>>

\* node = ib_list_get_first(wq->items); if (node) ib_list_remove(...)
wait_first(t) ==
    /\ pc[t] = "wait_first"
    /\ node' = [node EXCEPT ![t] = ib_list_get_first(items)]
    /\ IF ib_list_get_first(items) # NULL
       THEN /\ items' = ib_list_remove_first(items)
            /\ removed' = Append(removed, ib_list_get_first(items))
            /\ goto(t, "wait_check")
       ELSE /\ UNCHANGED <<items, removed>>
            /\ goto(t, "wait_retry")
    /\ UNCHANGED <<mutex, event, item, wq_locked, sig_count, wait_in_usecs,
                   elapsed, is_empty, len, nAdd, returned, setSince>>

\* ib_wqueue_wait resetting the event after every removal, without the
\* test that the list has become empty.
wait_check_always(t) ==
    /\ pc[t] = "wait_check"
    /\ event' = os_event_reset(event)
    /\ goto(t, "wait_unlock")
    /\ UNCHANGED <<items, mutex, locals, history>>

\* if (!ib_list_get_first(wq->items)) os_event_reset(wq->event);
wait_check(t) ==
    /\ pc[t] = "wait_check"
    /\ IF ib_list_get_first(items) = NULL
       THEN event' = os_event_reset(event)
       ELSE UNCHANGED event
    /\ goto(t, "wait_unlock")
    /\ UNCHANGED <<items, mutex, locals, history>>

\* ib_wqueue_wait going back to os_event_wait without the
\* mysql_mutex_unlock at the end of the loop body.
wait_retry_locked(t) ==
    /\ pc[t] = "wait_retry"
    /\ goto(t, "wait_event")
    /\ UNCHANGED <<shared, locals, history>>

\* mysql_mutex_unlock(&wq->mutex) at the end of the loop body: try again
wait_retry(t) ==
    /\ pc[t] = "wait_retry"
    /\ mutex' = NoThread
    /\ goto(t, "wait_event")
    /\ UNCHANGED <<items, event, locals, history>>

\* mysql_mutex_unlock(&wq->mutex) after the loop
wait_unlock(t) ==
    /\ pc[t] = "wait_unlock"
    /\ mutex' = NoThread
    /\ goto(t, "wait_ret")
    /\ UNCHANGED <<items, event, locals, history>>

\* A pop function returns node ? node->data : NULL.
Return(t) ==
    /\ returned' = IF node[t] = NULL THEN returned
                   ELSE [returned EXCEPT ![node[t]] = @ + 1]
    /\ node' = [node EXCEPT ![t] = NULL]
    /\ sig_count' = [sig_count EXCEPT ![t] = 0]
    /\ wait_in_usecs' = [wait_in_usecs EXCEPT ![t] = 0]
    /\ elapsed' = [elapsed EXCEPT ![t] = 0]
    /\ goto(t, "idle")
    /\ UNCHANGED <<shared, item, wq_locked, is_empty, len, nAdd,
                   removed, setSince>>

\* return(node->data);
wait_ret(t) ==
    /\ pc[t] = "wait_ret"
    /\ Return(t)

ib_wqueue_wait(t) ==
    \/ CallWait(t)
    \/ wait_event(t)
    \/ wait_blocked(t)
    \/ wait_lock(t)
    \/ wait_first(t)
    \/ wait_check(t)
    \/ wait_retry(t)
    \/ wait_unlock(t)
    \/ wait_ret(t)

\* ---------------------------------------------------- ib_wqueue_timedwait
CallTimedwait(t, usecs) ==
    /\ pc[t] = "idle"
    /\ wait_in_usecs' = [wait_in_usecs EXCEPT ![t] = usecs]
    /\ goto(t, "tw_lock")
    /\ UNCHANGED <<shared, item, wq_locked, node, sig_count, elapsed,
                   is_empty, len, history>>

\* mysql_mutex_lock(&wq->mutex);
tw_lock(t) ==
    /\ pc[t] = "tw_lock"
    /\ mutex_free
    /\ mutex' = t
    /\ goto(t, "tw_first")
    /\ UNCHANGED <<items, event, locals, history>>

\* ib_wqueue_timedwait giving up when it finds no node: it unlocks and
\* breaks out of the loop instead of waiting.
tw_first_giveup(t) ==
    /\ pc[t] = "tw_first"
    /\ node' = [node EXCEPT ![t] = ib_list_get_first(items)]
    /\ IF ib_list_get_first(items) # NULL
       THEN /\ items' = ib_list_remove_first(items)
            /\ removed' = Append(removed, ib_list_get_first(items))
       ELSE UNCHANGED <<items, removed>>
    /\ goto(t, "tw_break")
    /\ UNCHANGED <<mutex, event, item, wq_locked, sig_count, wait_in_usecs,
                   elapsed, is_empty, len, nAdd, returned, setSince>>

\* node = ib_list_get_first(wq->items); if (node) ib_list_remove(...)
tw_first(t) ==
    /\ pc[t] = "tw_first"
    /\ node' = [node EXCEPT ![t] = ib_list_get_first(items)]
    /\ IF ib_list_get_first(items) # NULL
       THEN /\ items' = ib_list_remove_first(items)
            /\ removed' = Append(removed, ib_list_get_first(items))
            /\ goto(t, "tw_break")
       ELSE /\ UNCHANGED <<items, removed>>
            /\ goto(t, "tw_reset")
    /\ UNCHANGED <<mutex, event, item, wq_locked, sig_count, wait_in_usecs,
                   elapsed, is_empty, len, nAdd, returned, setSince>>

\* ib_wqueue_timedwait resetting the event after every removal, whether
\* or not the list has become empty.
tw_break_reset(t) ==
    /\ pc[t] = "tw_break"
    /\ event' = os_event_reset(event)
    /\ mutex' = NoThread
    /\ goto(t, "tw_ret")
    /\ UNCHANGED <<items, locals, history>>

\* mysql_mutex_unlock(&wq->mutex); break;   (an item was removed)
tw_break(t) ==
    /\ pc[t] = "tw_break"
    /\ mutex' = NoThread
    /\ goto(t, "tw_ret")
    /\ UNCHANGED <<items, event, locals, history>>

\* ib_wqueue_timedwait resetting the event without keeping the generation
\* it returns, so that the wait starts from the generation it finds.
tw_reset_nocapture(t) ==
    /\ pc[t] = "tw_reset"
    /\ sig_count' = [sig_count EXCEPT ![t] = 0]
    /\ event' = os_event_reset(event)
    /\ setSince' = [setSince EXCEPT ![t] = FALSE]
    /\ goto(t, "tw_unlock")
    /\ UNCHANGED <<items, mutex, item, wq_locked, node, wait_in_usecs,
                   elapsed, is_empty, len, nAdd, removed, returned>>

\* sig_count = os_event_reset(wq->event);
tw_reset(t) ==
    /\ pc[t] = "tw_reset"
    /\ sig_count' = [sig_count EXCEPT ![t] = event.signal_count]
    /\ event' = os_event_reset(event)
    /\ setSince' = [setSince EXCEPT ![t] = FALSE]
    /\ goto(t, "tw_unlock")
    /\ UNCHANGED <<items, mutex, item, wq_locked, node, wait_in_usecs,
                   elapsed, is_empty, len, nAdd, removed, returned>>

\* mysql_mutex_unlock(&wq->mutex);   (nothing was found)
tw_unlock(t) ==
    /\ pc[t] = "tw_unlock"
    /\ mutex' = NoThread
    /\ goto(t, "tw_event")
    /\ UNCHANGED <<items, event, locals, history>>

\* The generation a wait compares with: the one passed, or, when 0 is
\* passed, the one the event has when the wait begins.
reset_sig_count(t) ==
    IF sig_count[t] = 0 THEN event.signal_count ELSE sig_count[t]

\* os_event_wait_time_low(wq->event, wait_in_usecs, sig_count), entry:
\* returns 0 at once when the event is set or its generation has moved on,
\* else starts to wait.
tw_event(t) ==
    /\ pc[t] = "tw_event"
    /\ IF os_event_signalled(event, reset_sig_count(t))
       THEN /\ goto(t, "tw_lock")
            /\ setSince' = [setSince EXCEPT ![t] = FALSE]
            /\ UNCHANGED <<sig_count, elapsed>>
       ELSE /\ goto(t, "tw_blocked")
            /\ sig_count' = [sig_count EXCEPT ![t] = reset_sig_count(t)]
            /\ elapsed' = [elapsed EXCEPT ![t] = 0]
            /\ UNCHANGED setSince
    /\ UNCHANGED <<shared, item, wq_locked, node, wait_in_usecs, is_empty,
                   len, nAdd, removed, returned>>

\* The wait is woken: error = 0, back to the top of the loop.
tw_woken(t) ==
    /\ pc[t] = "tw_blocked"
    /\ os_event_signalled(event, sig_count[t])
    /\ setSince' = [setSince EXCEPT ![t] = FALSE]
    /\ goto(t, "tw_lock")
    /\ UNCHANGED <<shared, locals, nAdd, removed, returned>>

\* One tick of the clock passes for a thread in a timed wait.
Tick(t) ==
    /\ pc[t] = "tw_blocked"
    /\ elapsed[t] < wait_in_usecs[t]
    /\ elapsed' = [elapsed EXCEPT ![t] = @ + 1]
    /\ UNCHANGED <<shared, pc, item, wq_locked, node, sig_count,
                   wait_in_usecs, is_empty, len, history>>

\* ib_wqueue_timedwait passing a timeout of 0 to os_event_wait_time_low.
tw_timeout_zero(t) ==
    /\ pc[t] = "tw_blocked"
    /\ ~os_event_signalled(event, sig_count[t])
    /\ elapsed[t] >= 0
    /\ setSince' = [setSince EXCEPT ![t] = FALSE]
    /\ goto(t, "tw_ret")
    /\ UNCHANGED <<shared, locals, nAdd, removed, returned>>

\* ib_wqueue_timedwait going round the loop again when the wait timed out,
\* instead of breaking out of it.
tw_timeout_retry(t) ==
    /\ pc[t] = "tw_blocked"
    /\ ~os_event_signalled(event, sig_count[t])
    /\ elapsed[t] >= wait_in_usecs[t]
    /\ setSince' = [setSince EXCEPT ![t] = FALSE]
    /\ goto(t, "tw_lock")
    /\ UNCHANGED <<shared, locals, nAdd, removed, returned>>

\* The wait runs out: error == OS_SYNC_TIME_EXCEEDED, break.
tw_timeout(t) ==
    /\ pc[t] = "tw_blocked"
    /\ ~os_event_signalled(event, sig_count[t])
    /\ elapsed[t] >= wait_in_usecs[t]
    /\ setSince' = [setSince EXCEPT ![t] = FALSE]
    /\ goto(t, "tw_ret")
    /\ UNCHANGED <<shared, locals, nAdd, removed, returned>>

\* return(node ? node->data : NULL);
tw_ret(t) ==
    /\ pc[t] = "tw_ret"
    /\ Return(t)

ib_wqueue_timedwait(t) ==
    \/ \E usecs \in {MaxWait} : CallTimedwait(t, usecs)
    \/ tw_lock(t)
    \/ tw_first(t)
    \/ tw_break(t)
    \/ tw_reset(t)
    \/ tw_unlock(t)
    \/ tw_event(t)
    \/ tw_woken(t)
    \/ Tick(t)
    \/ tw_timeout(t)
    \/ tw_ret(t)

\* ------------------------------------------------------- ib_wqueue_nowait
CallNowait(t) ==
    /\ pc[t] = "idle"
    /\ goto(t, "nw_lock")
    /\ UNCHANGED <<shared, locals, history>>

\* mysql_mutex_lock(&wq->mutex);
nw_lock(t) ==
    /\ pc[t] = "nw_lock"
    /\ mutex_free
    /\ mutex' = t
    /\ goto(t, "nw_first")
    /\ UNCHANGED <<items, event, locals, history>>

\* ib_wqueue_nowait with the ib_list_remove call left out: the first node
\* is returned but stays on the list.
nw_first_keep(t) ==
    /\ pc[t] = "nw_first"
    /\ IF ~ib_list_is_empty(items)
       THEN node' = [node EXCEPT ![t] = ib_list_get_first(items)]
       ELSE UNCHANGED node
    /\ goto(t, "nw_check")
    /\ UNCHANGED <<shared, item, wq_locked, sig_count, wait_in_usecs, elapsed,
                   is_empty, len, history>>

\* ib_wqueue_nowait taking the last node of the list instead of the first.
nw_first_last(t) ==
    /\ pc[t] = "nw_first"
    /\ IF ~ib_list_is_empty(items)
       THEN /\ node' = [node EXCEPT ![t] = items[Len(items)]]
            /\ items' = SubSeq(items, 1, Len(items) - 1)
            /\ removed' = Append(removed, items[Len(items)])
       ELSE UNCHANGED <<node, items, removed>>
    /\ goto(t, "nw_check")
    /\ UNCHANGED <<mutex, event, item, wq_locked, sig_count, wait_in_usecs,
                   elapsed, is_empty, len, nAdd, returned, setSince>>

\* if (!ib_list_is_empty(wq->items)) { node = first; if (node) remove }
nw_first(t) ==
    /\ pc[t] = "nw_first"
    /\ IF ~ib_list_is_empty(items)
       THEN /\ node' = [node EXCEPT ![t] = ib_list_get_first(items)]
            /\ items' = ib_list_remove_first(items)
            /\ removed' = Append(removed, ib_list_get_first(items))
       ELSE UNCHANGED <<node, items, removed>>
    /\ goto(t, "nw_check")
    /\ UNCHANGED <<mutex, event, item, wq_locked, sig_count, wait_in_usecs,
                   elapsed, is_empty, len, nAdd, returned, setSince>>

\* ib_wqueue_nowait without the os_event_reset when the list is empty.
nw_check_noreset(t) ==
    /\ pc[t] = "nw_check"
    /\ goto(t, "nw_unlock")
    /\ UNCHANGED <<shared, locals, history>>

\* if (ib_list_is_empty(wq->items)) os_event_reset(wq->event);
nw_check(t) ==
    /\ pc[t] = "nw_check"
    /\ IF ib_list_is_empty(items)
       THEN event' = os_event_reset(event)
       ELSE UNCHANGED event
    /\ goto(t, "nw_unlock")
    /\ UNCHANGED <<items, mutex, locals, history>>

\* mysql_mutex_unlock(&wq->mutex);
nw_unlock(t) ==
    /\ pc[t] = "nw_unlock"
    /\ mutex' = NoThread
    /\ goto(t, "nw_ret")
    /\ UNCHANGED <<items, event, locals, history>>

\* return (node ? node->data : NULL);
nw_ret(t) ==
    /\ pc[t] = "nw_ret"
    /\ Return(t)

ib_wqueue_nowait(t) ==
    \/ CallNowait(t)
    \/ nw_lock(t)
    \/ nw_first(t)
    \/ nw_check(t)
    \/ nw_unlock(t)
    \/ nw_ret(t)

\* ----------------------------------------------------- ib_wqueue_is_empty
CallIsEmpty(t) ==
    /\ pc[t] = "idle"
    /\ goto(t, "ie_lock")
    /\ UNCHANGED <<shared, locals, history>>

ie_lock(t) ==
    /\ pc[t] = "ie_lock"
    /\ mutex_free
    /\ mutex' = t
    /\ goto(t, "ie_read")
    /\ UNCHANGED <<items, event, locals, history>>

\* ib_wqueue_is_empty returning the negation of ib_list_is_empty.
ie_read_inverted(t) ==
    /\ pc[t] = "ie_read"
    /\ is_empty' = [is_empty EXCEPT ![t] = ~ib_list_is_empty(items)]
    /\ goto(t, "ie_unlock")
    /\ UNCHANGED <<shared, item, wq_locked, node, sig_count, wait_in_usecs,
                   elapsed, len, history>>

\* bool is_empty = ib_list_is_empty(wq->items);
ie_read(t) ==
    /\ pc[t] = "ie_read"
    /\ is_empty' = [is_empty EXCEPT ![t] = ib_list_is_empty(items)]
    /\ goto(t, "ie_unlock")
    /\ UNCHANGED <<shared, item, wq_locked, node, sig_count, wait_in_usecs,
                   elapsed, len, history>>

ie_unlock(t) ==
    /\ pc[t] = "ie_unlock"
    /\ mutex' = NoThread
    /\ goto(t, "ie_ret")
    /\ UNCHANGED <<items, event, locals, history>>

\* return is_empty;
ie_ret(t) ==
    /\ pc[t] = "ie_ret"
    /\ is_empty' = [is_empty EXCEPT ![t] = FALSE]
    /\ goto(t, "idle")
    /\ UNCHANGED <<shared, item, wq_locked, node, sig_count, wait_in_usecs,
                   elapsed, len, history>>

ib_wqueue_is_empty(t) ==
    \/ CallIsEmpty(t)
    \/ ie_lock(t)
    \/ ie_read(t)
    \/ ie_unlock(t)
    \/ ie_ret(t)

\* ---------------------------------------------------------- ib_wqueue_len
CallLen(t) ==
    /\ pc[t] = "idle"
    /\ goto(t, "len_lock")
    /\ UNCHANGED <<shared, locals, history>>

len_lock(t) ==
    /\ pc[t] = "len_lock"
    /\ mutex_free
    /\ mutex' = t
    /\ goto(t, "len_read")
    /\ UNCHANGED <<items, event, locals, history>>

\* ib_wqueue_len clearing the event while it reads the length.
len_read_reset(t) ==
    /\ pc[t] = "len_read"
    /\ len' = [len EXCEPT ![t] = ib_list_len(items)]
    /\ event' = os_event_reset(event)
    /\ goto(t, "len_unlock")
    /\ UNCHANGED <<items, mutex, item, wq_locked, node, sig_count,
                   wait_in_usecs, elapsed, is_empty, history>>

\* len = ib_list_len(wq->items);
len_read(t) ==
    /\ pc[t] = "len_read"
    /\ len' = [len EXCEPT ![t] = ib_list_len(items)]
    /\ goto(t, "len_unlock")
    /\ UNCHANGED <<shared, item, wq_locked, node, sig_count, wait_in_usecs,
                   elapsed, is_empty, history>>

len_unlock(t) ==
    /\ pc[t] = "len_unlock"
    /\ mutex' = NoThread
    /\ goto(t, "len_ret")
    /\ UNCHANGED <<items, event, locals, history>>

\* return(len);
len_ret(t) ==
    /\ pc[t] = "len_ret"
    /\ len' = [len EXCEPT ![t] = 0]
    /\ goto(t, "idle")
    /\ UNCHANGED <<shared, item, wq_locked, node, sig_count, wait_in_usecs,
                   elapsed, is_empty, history>>

ib_wqueue_len(t) ==
    \/ CallLen(t)
    \/ len_lock(t)
    \/ len_read(t)
    \/ len_unlock(t)
    \/ len_ret(t)

\* --------------------------------------------------------- specification
Producer(t) ==
    \/ ib_wqueue_add(t)
    \/ ib_wqueue_is_empty(t)
    \/ ib_wqueue_len(t)

Consumer(t) ==
    \/ ib_wqueue_wait(t)
    \/ ib_wqueue_timedwait(t)
    \/ ib_wqueue_nowait(t)

Next ==
    \/ \E t \in Producers : Producer(t)
    \/ \E t \in Consumers : Consumer(t)

Spec == Init /\ [][Next]_vars

\* The calls that begin an operation; no thread is obliged to make one.
Begin(t) ==
    \/ \E locked \in BOOLEAN : CallAdd(t, locked)
    \/ CallWait(t)
    \/ \E usecs \in {MaxWait} : CallTimedwait(t, usecs)
    \/ CallNowait(t)
    \/ CallIsEmpty(t)
    \/ CallLen(t)

Step(t) == (Producer(t) \/ Consumer(t)) /\ ~Begin(t)

\* Fair scheduling: a thread inside an operation whose next statement can
\* run again and again does run it.  For a thread that runs freely, or
\* waits on the event (a wake-up condition, once true, stays true until the
\* thread wakes), this is weak fairness; for a thread at mysql_mutex_lock
\* it says that the mutex does not starve it.
Fairness == \A t \in Threads : SF_vars(Step(t))

FairSpec == Init /\ [][Next]_vars /\ Fairness

\* ------------------------------------------------------------ vocabulary
AddPcs == {"caller_lock", "add_lock", "add_last", "add_set", "add_unlock",
           "caller_unlock"}

WaitPcs == {"wait_event", "wait_blocked", "wait_lock", "wait_first",
            "wait_check", "wait_retry", "wait_unlock"}

\* The statements that read or change wq->items.
AccessPcs == {"add_last", "wait_first", "wait_check", "tw_first",
              "nw_first", "nw_check", "ie_read", "len_read"}

\* The statements between taking wq->mutex and giving it back.
CriticalPcs == AccessPcs \cup
               {"add_set", "add_unlock", "caller_unlock", "wait_retry",
                "wait_unlock", "tw_break", "tw_reset", "tw_unlock",
                "nw_unlock", "ie_unlock", "len_unlock"}

\* An ib_wqueue_add entered with wq_locked = TRUE is inside its caller's
\* critical section from its first statement on.
InCritical(t) ==
    pc[t] \in CriticalPcs \/ (pc[t] = "add_lock" /\ wq_locked[t])

NoAddInProgress == \A p \in Producers : pc[p] \notin AddPcs

NoMoreAdds == nAdd = MaxPush /\ NoAddInProgress

\* The items whose ib_list_add_last has run.
Appended ==
    nAdd - Cardinality({p \in Producers :
                          pc[p] \in {"caller_lock", "add_lock", "add_last"}})

Range(f) == {f[i] : i \in DOMAIN f}

Holding(i) == {t \in Consumers : node[t] = i}

\* ------------------------------------------------------------------ claims
\* C1: no double delivery.  Every item is taken off the list at most once
\* and returned by at most one pop call; a pop call holds an item only if
\* it took that item off the list itself, and no other call holds or has
\* returned it; every item appended is on the list or has been taken off;
\* and once all MaxPush adds are done and the list is empty, exactly
\* MaxPush removals have happened, each returned or about to be.
C1_NoDoubleDelivery ==
    /\ \A i \in Items : returned[i] + Cardinality(Holding(i)) <= 1
    /\ \A i, j \in 1..Len(removed) : i # j => removed[i] # removed[j]
    /\ \A t \in Consumers :
          node[t] # NULL =>
              /\ node[t] \in Range(removed)
              /\ node[t] \notin Range(items)
    /\ \A i \in Items :
          returned[i] + Cardinality(Holding(i)) =
              (IF i \in Range(removed) THEN 1 ELSE 0)
    /\ Len(removed) + Len(items) = Appended
    /\ (NoMoreAdds /\ items = <<>>) => Len(removed) = MaxPush

\* Both consumers hold an item at once, and the list is drained.
C1_Witness ==
    /\ NoMoreAdds
    /\ items = <<>>
    /\ \A t \in Consumers : node[t] # NULL
    /\ Len(removed) = MaxPush

\* C2: FIFO.  The producer's adds are numbered in call order, and the
\* items come off the list in exactly that order, whichever pop function
\* takes them; a pop that found nothing found the list empty.
C2_Fifo ==
    /\ \A i \in 1..Len(removed) : removed[i] = i
    /\ \A i \in 1..Len(items) : items[i] = Len(removed) + i
    /\ \A t \in Consumers :
          (pc[t] \in {"nw_check", "nw_unlock"} /\ node[t] = NULL)
              => items = <<>>

\* Items 1 and 2 were queued together, ib_wqueue_nowait has just taken 1
\* and left 2 at the head.
C2_Witness ==
    \E t \in Consumers :
        /\ pc[t] = "nw_check"
        /\ node[t] = 1
        /\ items = <<2>>
        /\ removed = <<1>>

\* C3: no lost wakeup in ib_wqueue_wait.  Under the fairness of FairSpec,
\* whenever a thread is inside ib_wqueue_wait and the list holds an item,
\* the thread eventually returns an item unless the list is emptied by
\* others first: it is never left waiting on the event beside a non-empty
\* list.
C3_NoLostWakeup ==
    \A t \in Consumers :
        (pc[t] \in WaitPcs /\ items # <<>>)
            ~> ((pc[t] = "wait_ret" /\ node[t] # NULL) \/ items = <<>>)

\* A waiter is blocked in os_event_wait while the producer has appended
\* an item and has not set the event yet.
C3_Witness ==
    \E t \in Consumers, p \in Producers :
        /\ pc[t] = "wait_blocked"
        /\ items # <<>>
        /\ pc[p] = "add_set"

\* C4: a thread that calls ib_wqueue_wait on an empty queue stays blocked
\* until an add: when the list is empty, the mutex is free and no add is
\* in progress, the event is clear, so a thread about to wait on it does
\* not get past the wait.
C4_WaitBlocksOnEmpty ==
    \A t \in Consumers :
        (pc[t] = "wait_event" /\ items = <<>> /\ mutex_free
            /\ NoAddInProgress)
        => ~os_event_signalled(event, event.signal_count)

\* C5: the signal invariant.  Whenever no thread holds the mutex and the
\* list is non-empty, the event is set.
C5_SignalInvariant ==
    (mutex_free /\ items # <<>>) => event.m_set

\* The mutex is free, the list is non-empty, and a timed waiter that
\* reset the event before the add is still in its wait.
C5_Witness ==
    /\ mutex_free
    /\ items # <<>>
    /\ \E t \in Consumers : pc[t] = "tw_blocked"

\* The step resets the event from set to clear.
EventCleared == event.m_set /\ ~event'.m_set

C7_DrainResets ==
    \A t \in Consumers :
        (pc[t] \in {"wait_unlock", "tw_break", "nw_unlock"}
            /\ node[t] # NULL /\ items = <<>>)
        => ~event.m_set

\* C8: no lost-wakeup gap in ib_wqueue_timedwait.  The generation is
\* captured with the mutex held, and once os_event_set has run after the
\* capture, the wait neither blocks nor times out: its next step goes back
\* to take the mutex and look at the list again.
C8_NoGapInTimedwait ==
    [][\A t \in Consumers :
          /\ pc[t] = "tw_reset" => mutex = t
          /\ (pc[t] \in {"tw_event", "tw_blocked"} /\ setSince[t]
                 /\ pc'[t] # pc[t])
             => pc'[t] = "tw_lock"]_vars

\* An add ran in the gap between the capture and the wait, and another
\* consumer has already emptied the list and reset the event again: only
\* the generation tells the waiter.
C8_Witness ==
    \E t \in Consumers :
        /\ pc[t] = "tw_event"
        /\ setSince[t]
        /\ ~event.m_set
        /\ event.signal_count # sig_count[t]

\* C9: lock discipline.  A thread at a statement that reads or changes
\* the list, or anywhere between taking and releasing the mutex, is the
\* holder of the mutex (so at most one thread is there), also inside an
\* ib_wqueue_add called with wq_locked = TRUE.
C9_LockDiscipline ==
    /\ \A t \in Threads : InCritical(t) => mutex = t
    /\ Cardinality({t \in Threads : InCritical(t)}) <= 1
    /\ \A t \in Threads : mutex = t => InCritical(t)

\* An add with wq_locked = TRUE is appending under its caller's mutex
\* while a consumer waits for the mutex.
C9_Witness ==
    \E p \in Producers, t \in Consumers :
        /\ pc[p] = "add_last"
        /\ wq_locked[p]
        /\ mutex = p
        /\ pc[t] \in {"wait_lock", "tw_lock", "nw_lock"}

TimedwaitSearching ==
    {"tw_lock", "tw_first", "tw_reset", "tw_unlock", "tw_event",
     "tw_blocked"}

\* C10: timeout correctness.  ib_wqueue_timedwait returns NULL only after
\* a wait of the full wait_in_usecs, and, under the fairness of FairSpec,
\* a call that looks for work while the list is empty and no add will
\* come does return NULL.
C10_Timeout ==
    /\ [](\A t \in Consumers :
            (pc[t] = "tw_ret" /\ node[t] = NULL)
                => (wait_in_usecs[t] > 0 /\ elapsed[t] >= wait_in_usecs[t]))
    /\ \A t \in Consumers :
          (pc[t] \in TimedwaitSearching /\ items = <<>> /\ NoMoreAdds)
              ~> (pc[t] = "tw_ret" /\ node[t] = NULL)

\* A timed wait on the empty queue has run its full time and returns NULL.
C10_Witness ==
    \E t \in Consumers :
        /\ pc[t] = "tw_ret"
        /\ node[t] = NULL
        /\ items = <<>>
        /\ elapsed[t] = wait_in_usecs[t]
        /\ elapsed[t] = MaxWait

NowaitPcs == {"nw_lock", "nw_first", "nw_check", "nw_unlock", "nw_ret"}

\* C11: ib_wqueue_nowait never waits on the event.  The only thing a call
\* can wait for is the mutex; on an empty list it takes nothing and leaves
\* the list as it is; on a non-empty list it takes exactly the first item
\* and leaves the others in their order; and it returns what it took.
C11_NowaitNeverBlocks ==
    [][\A t \in Consumers :
          /\ pc[t] \in NowaitPcs =>
                (ENABLED ib_wqueue_nowait(t)
                    \/ (pc[t] = "nw_lock" /\ ~mutex_free))
          /\ (pc[t] = "nw_first" /\ pc'[t] # pc[t]) =>
                IF items = <<>>
                THEN items' = items /\ node'[t] = NULL
                ELSE items' = Tail(items) /\ node'[t] = Head(items)
          /\ pc[t] \in {"nw_check", "nw_unlock"} => items' = items
          /\ pc[t] \in {"nw_check", "nw_unlock", "nw_ret"} =>
                (pc'[t] = "idle" \/ node'[t] = node[t])]_vars

\* ib_wqueue_nowait has taken item 1 from a list of two while the event
\* is set, and is about to release the mutex with item 2 left.
C11_Witness ==
    \E t \in Consumers :
        /\ pc[t] = "nw_unlock"
        /\ node[t] = 1
        /\ items = <<2>>
        /\ event.m_set

\* The number of completed adds minus the number of successful pops.
Outstanding == Appended - Len(removed)

\* C12: length and emptiness are consistent.  What ib_wqueue_len has read
\* is the number of completed adds minus the number of successful pops,
\* and what ib_wqueue_is_empty has read is TRUE exactly when that number
\* is 0; an append raises the length by one and leaves the list
\* non-empty, a removal lowers it by one, and nothing else changes it.
C12_LengthConsistent ==
    /\ [](\A t \in Threads :
            /\ pc[t] = "len_unlock" => len[t] = Outstanding
            /\ pc[t] = "ie_unlock" => (is_empty[t] <=> Outstanding = 0))
    /\ [][/\ ib_list_len(items') = Outstanding'
          /\ (\E p \in Producers : pc[p] = "add_last" /\ pc'[p] # pc[p])
                => /\ ib_list_len(items') = ib_list_len(items) + 1
                   /\ ~ib_list_is_empty(items')
          /\ removed' # removed
                => /\ ib_list_len(items') = ib_list_len(items) - 1
                   /\ Len(removed') = Len(removed) + 1
          /\ (ib_list_len(items') # ib_list_len(items))
                => (removed' # removed
                    \/ \E p \in Producers : pc[p] = "add_last")]_vars

\* After one add was popped and a second add completed, ib_wqueue_len has
\* read 1.
C12_Witness ==
    \E t \in Threads :
        /\ pc[t] = "len_unlock"
        /\ len[t] = 1
        /\ Len(removed) = 1
        /\ nAdd = 2

\* C13: ib_wqueue_add is symmetric on the mutex.  With wq_locked = FALSE
\* it takes the free mutex on entry and has released it on return; with
\* wq_locked = TRUE it finds the mutex held by its caller, neither takes
\* nor releases it, and returns with the caller still holding it; in both
\* cases the thread holds the mutex without a break from the append to
\* the end of os_event_set.
C13_AddLockSymmetric ==
    [][\A p \in Producers :
          /\ (pc[p] = "add_lock" /\ pc'[p] # pc[p]) =>
                IF wq_locked[p]
                THEN mutex = p /\ mutex' = p
                ELSE mutex = NoThread /\ mutex' = p
          /\ pc[p] \in {"add_last", "add_set"} =>
                (mutex = p /\ mutex' = p /\ pc'[p] \in AddPcs)
          /\ (pc[p] = "add_unlock" /\ pc'[p] # pc[p]) =>
                /\ mutex = p
                /\ IF wq_locked[p]
                   THEN mutex' = p /\ pc'[p] = "caller_unlock"
                   ELSE mutex' = NoThread /\ pc'[p] = "idle"]_vars

\* An ib_wqueue_add with wq_locked = TRUE has returned: the item is on
\* the list, the event is set and the caller still holds the mutex.
C13_Witness ==
    \E p \in Producers :
        /\ pc[p] = "caller_unlock"
        /\ wq_locked[p]
        /\ mutex = p
        /\ items # <<>>
        /\ event.m_set

\* C14: ib_wqueue_timedwait returns NULL only out of a wait that timed
\* out.  A wait that ends because the event was set or its generation
\* moved leads back to mysql_mutex_lock; a look at the list that finds it
\* empty, another consumer having taken the item, leads to a new wait and
\* never to the return; and a call that returns an item took it itself.
C14_NullOnlyOnTimeout ==
    [][\A t \in Consumers :
          /\ (pc'[t] = "tw_ret" /\ pc[t] # "tw_ret" /\ node'[t] = NULL) =>
                /\ pc[t] = "tw_blocked"
                /\ ~os_event_signalled(event, sig_count[t])
                /\ elapsed[t] >= wait_in_usecs[t]
          /\ (pc[t] \in {"tw_event", "tw_blocked"} /\ pc'[t] # pc[t]
                 /\ os_event_signalled(event, reset_sig_count(t))) =>
                pc'[t] = "tw_lock"
          /\ (pc[t] = "tw_first" /\ pc'[t] # pc[t] /\ items = <<>>) =>
                (pc'[t] = "tw_reset" /\ node'[t] = NULL /\ mutex' = t)
          /\ (pc'[t] = "tw_ret" /\ pc[t] # "tw_ret" /\ node'[t] # NULL) =>
                (pc[t] = "tw_break" /\ node[t] = node'[t]
                    /\ node[t] \in Range(removed)
                    /\ \A u \in Consumers \ {t} : node[u] # node[t])]_vars

\* A timed waiter was woken by a new generation, found the list empty
\* because the other consumer had taken the item, and is about to wait
\* again.
C14_Witness ==
    \E t \in Consumers :
        /\ pc[t] = "tw_reset"
        /\ node[t] = NULL
        /\ sig_count[t] # 0
        /\ event.signal_count # sig_count[t]
        /\ items = <<>>
        /\ Len(removed) >= 1

\* C15: ib_wqueue_add leaves the event set and never clears it.  No
\* statement of it takes the event from set to clear; its os_event_set
\* leaves the event set, and when the list held an item before the append
\* the event was set already and is left exactly as it was; the event is
\* set when the add returns; and the append puts the item after the items
\* already on the list, which keep their order.
C15_AddSetsEvent ==
    [][\A p \in Producers :
          /\ (pc[p] \in AddPcs /\ pc'[p] # pc[p]) =>
                (event.m_set => event'.m_set)
          /\ (pc[p] = "add_set" /\ pc'[p] # pc[p]) =>
                /\ event'.m_set
                /\ ib_list_len(items) >= 2 => (event.m_set /\ event' = event)
          /\ (pc[p] = "add_unlock" /\ pc'[p] # pc[p]) => event'.m_set
          /\ (pc[p] = "add_last" /\ pc'[p] # pc[p]) =>
                /\ Len(items') = Len(items) + 1
                /\ SubSeq(items', 1, Len(items)) = items
                /\ items'[Len(items')] = item[p]]_vars

\* A second add onto a non-empty list is about to return: two items are
\* queued and the event is still in the generation the first add began.
C15_Witness ==
    \E p \in Producers :
        /\ pc[p] = "add_unlock"
        /\ items = <<1, 2>>
        /\ event.m_set
        /\ event.signal_count = os_event_create.signal_count + 1

\* The statements at which a thread waits on wq->event.
EventWaitPcs == {"wait_event", "wait_blocked", "tw_event", "tw_blocked"}

IsEmptyPcs == {"ie_lock", "ie_read", "ie_unlock", "ie_ret"}

LenPcs == {"len_lock", "len_read", "len_unlock", "len_ret"}

\* C16: no thread waits on the event while it holds the mutex, so waiting
\* consumers keep nobody from the mutex: under the fairness of FairSpec
\* every ib_wqueue_add, ib_wqueue_is_empty, ib_wqueue_len and
\* ib_wqueue_nowait call that has begun returns: no thread stays inside
\* such a call for ever.
C16_NoWaitUnderMutex ==
    /\ [](\A t \in Threads : pc[t] \in EventWaitPcs => mutex # t)
    /\ \A p \in Producers :
          []<>(pc[p] \notin AddPcs \cup IsEmptyPcs \cup LenPcs)
    /\ \A t \in Consumers : []<>(pc[t] \notin NowaitPcs)

\* One consumer is blocked in os_event_wait and the other in the timed
\* wait while the producer appends under the mutex.
C16_Witness ==
    \E p \in Producers, t, u \in Consumers :
        /\ pc[t] = "wait_blocked"
        /\ pc[u] = "tw_blocked"
        /\ pc[p] = "add_last"
        /\ mutex = p

\* The queue used without ib_wqueue_timedwait.
NextNoTimedwait ==
    \/ \E t \in Producers : Producer(t)
    \/ \E t \in Consumers : ib_wqueue_wait(t) \/ ib_wqueue_nowait(t)

SpecNoTimedwait == Init /\ [][NextNoTimedwait]_vars

\* C17: when ib_wqueue_timedwait is not used, then whenever no thread
\* holds the mutex the event is set if and only if the list is non-empty.
C17_EventIffNonEmpty ==
    mutex_free => (event.m_set <=> items # <<>>)

\* All items have been added and popped, a consumer is blocked in
\* os_event_wait, and the mutex is free: the event is clear.
C17_Witness ==
    /\ mutex_free
    /\ items = <<>>
    /\ ~event.m_set
    /\ Len(removed) = MaxPush
    /\ \E t \in Consumers : pc[t] = "wait_blocked"

\* The statements of ib_wqueue_timedwait before its return statement.
TimedwaitPcs == TimedwaitSearching \cup {"tw_break"}

\* C18: ib_wqueue_timedwait terminates.  With the adds bounded by MaxPush
\* and both consumers competing, under the fairness of FairSpec every call
\* that has begun reaches its return statement, with an item or with NULL
\* (no consumer stays in the loop for ever);
\* each wait of the call starts its time from zero.
C18_TimedwaitTerminates ==
    /\ \A t \in Consumers : []<>(pc[t] \notin TimedwaitPcs)
    /\ [][\A t \in Consumers :
             (pc[t] = "tw_event" /\ pc'[t] = "tw_blocked")
                 => elapsed'[t] = 0]_vars

\* All items were added and taken, one timed wait has run out and returns
\* NULL while the other consumer is still in its timed wait.
C18_Witness ==
    \E t, u \in Consumers :
        /\ pc[t] = "tw_ret"
        /\ node[t] = NULL
        /\ pc[u] = "tw_blocked"
        /\ Len(removed) = MaxPush

\* C19: ib_wqueue_is_empty and ib_wqueue_len are read-only.  Every step of
\* a call leaves the list and the event as they were; the call takes the
\* free mutex, reads while it holds it, and releases it; what it read is
\* the emptiness / the count of the list at the read, and that value is
\* what it returns.
C19_ReadOnly ==
    [][\A t \in Threads :
         (pc[t] \in IsEmptyPcs \cup LenPcs /\ pc'[t] # pc[t]) =>
            /\ items' = items
            /\ event' = event
            /\ pc[t] \in {"ie_lock", "len_lock"}
                  => mutex = NoThread /\ mutex' = t
            /\ pc[t] \in {"ie_read", "len_read"}
                  => mutex = t /\ mutex' = t
            /\ pc[t] \in {"ie_unlock", "len_unlock"}
                  => mutex = t /\ mutex' = NoThread
            /\ pc[t] = "ie_read" => (is_empty'[t] <=> items = <<>>)
            /\ pc[t] = "len_read" => len'[t] = Len(items)
            /\ pc[t] = "ie_unlock" => is_empty'[t] = is_empty[t]
            /\ pc[t] = "len_unlock" => len'[t] = len[t]
            /\ pc[t] \in {"ie_ret", "len_ret"} => mutex' = mutex]_vars

\* ib_wqueue_len is about to return 1 for a list that a consumer has
\* emptied since the mutex was released.
C19_Witness ==
    \E t \in Threads :
        /\ pc[t] = "len_ret"
        /\ len[t] = 1
        /\ items = <<>>

====
